---- MODULE Spec2Model ----
(***************************************************************************)
(* Model of the AssetErc721 ink! contract (src/lib.rs): the asset-owner    *)
(* ledger, the owned-asset counters, the single-asset and blanket proxies, *)
(* the role map and the attribute stores, with one action per message.     *)
(*                                                                         *)
(* An Option<T> of the source is the set {} (None) or {x} (Some(x)).       *)
(* A StorageHashMap<K, V> is a function from the keys of the model to      *)
(* Option<V>: the empty set at a key means the key is vacant.              *)
(*                                                                         *)
(* The variable self is the storage struct, a record of its twelve maps.    *)
(* Every function of the source is an operator that takes the storage as   *)
(* the record s and returns [st, res, ev]: the storage it leaves, "Ok" or  *)
(* the Error it returns or "Panic", and the events it has emitted.         *)
(* overflow_checks is the build's setting for integer overflow, fixed for  *)
(* a behaviour; calls counts the messages dispatched so far.               *)
(***************************************************************************)
EXTENDS Integers, FiniteSets, Sequences, TLC

\* ------------------------------------------------------------------ bounds
MaxAssetId == 2
MaxCalls == 3

\* ------------------------------------------------------- program constants
\* A u32 is held as its 32-bit pattern read as a signed integer (the model
\* checker's integers are 32 bits wide): 0 .. 2^31 - 1 stand for themselves and
\* the negative n stands for 2^32 + n, so u32::MAX = 2^32 - 1 is -1.
U32Max == -1
AdministratorRole == 5
ShipperRole == 4
ProducerRole == 0
MaxRole == 5

Zero == "zero"
administrator_accountid == "alice"

Accounts == {Zero, "alice", "bob", "eve"}
\* The accounts that sign calls. The zero account signs none, so a role or a
\* blanket approval given to it is read by no message: the role and operator
\* arguments are drawn from Callers.
Callers == Accounts \ {Zero}
AssetIds == 1 .. MaxAssetId
CategoryIds == AssetIds
Hashes == {"h1", "h2"}
RoleArgs == {ProducerRole, ShipperRole, AdministratorRole, MaxRole + 1}

Error ==
    {"NotOwner", "NotAdministrator", "NotApproved", "AssetExists", "AssetNotFound",
     "CannotInsert", "CannotRemove", "CannotFetchValue", "NotAllowed",
     "DuplicatedData", "CategoryNotFound"}

None == {}
Some(x) == {x}
unwrap(o) == CHOOSE x \in o : TRUE

\* ------------------------------------------------------------------- state
VARIABLES
    self,
    overflow_checks,
    calls

vars == <<self, overflow_checks, calls>>

\* The fields of the storage struct.
asset_owner == self.asset_owner
asset_description == self.asset_description
asset_photo == self.asset_photo
asset_category == self.asset_category
asset_category_description == self.asset_category_description
asset_location == self.asset_location
asset_metadata == self.asset_metadata
asset_validation == self.asset_validation
asset_proxy == self.asset_proxy
account_owned_assets == self.account_owned_assets
account_proxy == self.account_proxy
account_role == self.account_role

new ==
    [asset_owner |-> [i \in AssetIds |-> None],
     asset_description |-> [i \in AssetIds |-> None],
     asset_photo |-> [i \in AssetIds |-> None],
     asset_category |-> [i \in AssetIds |-> None],
     asset_category_description |-> [i \in CategoryIds |-> None],
     asset_location |-> [i \in AssetIds |-> None],
     asset_metadata |-> [i \in AssetIds |-> None],
     asset_validation |-> [i \in AssetIds |-> None],
     asset_proxy |-> [i \in AssetIds |-> None],
     account_owned_assets |-> [a \in Accounts |-> None],
     account_proxy |-> [p \in Accounts \X Accounts |-> None],
     account_role |-> [a \in Accounts |-> None]]

\* ----------------------------------------------------------------- results
Ok(s, ev) == [st |-> s, res |-> "Ok", ev |-> ev]
Err(s, e, ev) == [st |-> s, res |-> e, ev |-> ev]
Panic(s) == [st |-> s, res |-> "Panic", ev |-> <<>>]

\* A message that panics traps: the call is rolled back, events and all.
\* A message that returns Err keeps whatever the storage holds by then.
message(s, r) == IF r.res = "Panic" THEN Panic(s) ELSE r

\* ----------------------------------------------------------------- queries
asset_verify(s, id) == s.asset_owner[id] # None

asset_get_owner(s, id) == s.asset_owner[id]

exists(s, id) == s.asset_owner[id] # None /\ s.asset_owner[id] # None

account_role_get(s, accountid) == s.account_role[accountid]

account_role_verify(s, accountid) == s.account_role[accountid] # None

account_assets_number_or_zero(s, of) ==
    IF s.account_owned_assets[of] = None THEN 0 ELSE unwrap(s.account_owned_assets[of])

account_assets_number(s, owner) == account_assets_number_or_zero(s, owner)

asset_get_delegated_account(s, id) == s.asset_proxy[id]

check_proxy_for_all(s, owner, operator) ==
    IF s.account_proxy[<<owner, operator>>] = None
    THEN FALSE
    ELSE unwrap(s.account_proxy[<<owner, operator>>])

account_verify_delegated_for_all_asset(s, owner, operator) ==
    check_proxy_for_all(s, owner, operator)

\* approved_or_owner evaluates owner.expect(..) only when the two comparisons
\* before it are false; it panics there when the asset has no owner.
approved_or_owner_panics(s, from, id) ==
    /\ from # Some(Zero)
    /\ from # asset_get_owner(s, id)
    /\ from # s.asset_proxy[id]
    /\ (asset_get_owner(s, id) = None \/ from = None)

approved_or_owner(s, from, id) ==
    /\ from # Some(Zero)
    /\ \/ from = asset_get_owner(s, id)
       \/ from = s.asset_proxy[id]
       \/ /\ asset_get_owner(s, id) # None
          /\ from # None
          /\ check_proxy_for_all(s, unwrap(asset_get_owner(s, id)), unwrap(from))

\* role_gate with unwrap_or(0) in place of unwrap(): a caller without a role is
\* taken to hold role 0.
role_gate_default(s, denied, caller, role) ==
    IF ~denied THEN "pass"
    ELSE IF account_role_get(s, caller) = None
    THEN (IF role = 0 THEN "pass" ELSE "reject")
    ELSE IF unwrap(account_role_get(s, caller)) # role THEN "reject"
    ELSE "pass"

\* `denied && self.account_role_get(caller).unwrap() != role`: "pass" when the
\* early return is not taken, "reject" when it is, "panic" when denied is true
\* and the caller has no role to unwrap.
role_gate(s, denied, caller, role) ==
    IF ~denied THEN "pass"
    ELSE IF account_role_get(s, caller) = None THEN "panic"
    ELSE IF unwrap(account_role_get(s, caller)) # role THEN "reject"
    ELSE "pass"

\* ---------------------------------------------------------------- counters
\* Wrapping u32 arithmetic on bit patterns: signed addition and subtraction agree
\* with it wherever the signed result stays within 32 bits.
u32_sub(a, b) == a - b

u32_add(a, b) == a + b

\* `*count -= 1` on a u32: 0 - 1 panics in a build with overflow checks and
\* wraps to u32::MAX in a build without them.
decrease_counter_of(s, of) ==
    IF s.account_owned_assets[of] = None THEN Err(s, "CannotFetchValue", <<>>)
    ELSE LET count == unwrap(s.account_owned_assets[of]) IN
         IF count = 0 /\ overflow_checks THEN Panic(s)
         ELSE Ok([s EXCEPT !.account_owned_assets[of] = Some(u32_sub(count, 1))], <<>>)

\* `entry.and_modify(|v| *v += 1).or_insert(1)`: u32::MAX + 1 panics in a build
\* with overflow checks and wraps to 0 in a build without them.
increase_counter_of(s, of) ==
    IF s.account_owned_assets[of] = None
    THEN Ok([s EXCEPT !.account_owned_assets[of] = Some(1)], <<>>)
    ELSE LET v == unwrap(s.account_owned_assets[of]) IN
         IF v = U32Max /\ overflow_checks THEN Panic(s)
         ELSE Ok([s EXCEPT !.account_owned_assets[of] = Some(u32_add(v, 1))], <<>>)

\* --------------------------------------------------------------- ownership
asset_remove_from(s, from, id) ==
    IF s.asset_owner[id] = None THEN Err(s, "AssetNotFound", <<>>)
    ELSE LET r == decrease_counter_of(s, from) IN
         IF r.res # "Ok" THEN r
         ELSE Ok([r.st EXCEPT !.asset_owner[id] = None], <<>>)

\* add_asset_to without its comparison of `to` with the zero account.
add_asset_to_zero(s, to, id) ==
    IF s.asset_owner[id] # None THEN Err(s, "AssetExists", <<>>)
    ELSE LET r == increase_counter_of(s, to) IN
         IF r.res # "Ok" THEN r
         ELSE Ok([r.st EXCEPT !.asset_owner[id] = Some(to)], <<>>)

\* add_asset_to without its occupied-entry check: the id is given to `to` anew.
add_asset_to_unchecked(s, to, id) ==
    IF to = Zero THEN Err(s, "NotAllowed", <<>>)
    ELSE LET r == increase_counter_of(s, to) IN
         IF r.res # "Ok" THEN r
         ELSE Ok([r.st EXCEPT !.asset_owner[id] = Some(to)], <<>>)

add_asset_to(s, to, id) ==
    IF s.asset_owner[id] # None THEN Err(s, "AssetExists", <<>>)
    ELSE IF to = Zero THEN Err(s, "NotAllowed", <<>>)
    ELSE LET r == increase_counter_of(s, to) IN
         IF r.res # "Ok" THEN r
         ELSE Ok([r.st EXCEPT !.asset_owner[id] = Some(to)], <<>>)

\* clear_proxy_asset that reports success and removes nothing.
clear_proxy_asset_keeps(s, id) == Ok(s, <<>>)

clear_proxy_asset(s, id) ==
    IF s.asset_proxy[id] = None THEN Ok(s, <<>>)
    ELSE Ok([s EXCEPT !.asset_proxy[id] = None], <<>>)

asset_transfer_from(s, caller, from, to, id) ==
    IF ~exists(s, id) THEN Err(s, "AssetNotFound", <<>>)
    ELSE IF approved_or_owner_panics(s, Some(caller), id) THEN Panic(s)
    ELSE LET gate == role_gate(s, ~approved_or_owner(s, Some(caller), id),
                               caller, AdministratorRole) IN
         IF gate = "panic" THEN Panic(s)
         ELSE IF gate = "reject" THEN Err(s, "NotApproved", <<>>)
         ELSE LET r1 == clear_proxy_asset(s, id) IN
              IF r1.res # "Ok" THEN r1
              ELSE LET r2 == asset_remove_from(r1.st, from, id) IN
                   IF r2.res # "Ok" THEN r2
                   ELSE LET r3 == add_asset_to(r2.st, to, id) IN
                        IF r3.res # "Ok" THEN r3
                        ELSE Ok(r3.st, <<"Transfer">>)

asset_new(s, caller, id) ==
    message(s,
        LET r == add_asset_to(s, caller, id) IN
        IF r.res # "Ok" THEN r ELSE Ok(r.st, <<"Transfer">>))

asset_transfer(s, caller, destination, id) ==
    message(s, asset_transfer_from(s, caller, caller, destination, id))

transfer_from(s, caller, from, to, id) ==
    message(s, asset_transfer_from(s, caller, from, to, id))

\* asset_delete with the role-5 override of the attribute deletes.
asset_delete_role_override(s, caller, id) ==
    message(s,
        IF s.asset_owner[id] = None THEN Err(s, "AssetNotFound", <<>>)
        ELSE LET gate == role_gate(s, s.asset_owner[id] # Some(caller), caller,
                                   AdministratorRole) IN
             IF gate = "panic" THEN Panic(s)
             ELSE IF gate = "reject" THEN Err(s, "NotOwner", <<>>)
             ELSE LET r == decrease_counter_of(s, unwrap(s.asset_owner[id])) IN
                  IF r.res # "Ok" THEN r
                  ELSE Ok([r.st EXCEPT !.asset_owner[id] = None], <<"Transfer">>))

asset_delete(s, caller, id) ==
    message(s,
        IF s.asset_owner[id] = None THEN Err(s, "AssetNotFound", <<>>)
        ELSE IF s.asset_owner[id] # Some(caller) THEN Err(s, "NotOwner", <<>>)
        ELSE LET r == decrease_counter_of(s, caller) IN
             IF r.res # "Ok" THEN r
             ELSE Ok([r.st EXCEPT !.asset_owner[id] = None], <<"Transfer">>))

\* --------------------------------------------------------------- approvals
proxy_for_all_assets(s, caller, to, approved) ==
    IF to = caller THEN Err(s, "NotAllowed", <<>>)
    ELSE IF check_proxy_for_all(s, caller, to)
    THEN Ok([s EXCEPT !.account_proxy[<<caller, to>>] = Some(approved)],
            <<"ApprovalForAll">>)
    ELSE \* insert() stores the value and returns the one it replaced
         IF s.account_proxy[<<caller, to>>] # None
         THEN Err([s EXCEPT !.account_proxy[<<caller, to>>] = Some(approved)],
                  "CannotInsert", <<"ApprovalForAll">>)
         ELSE Ok([s EXCEPT !.account_proxy[<<caller, to>>] = Some(approved)],
                 <<"ApprovalForAll">>)

\* delegate_for_single_asset that admits whoever approved_or_owner admits, the
\* asset's single delegate included.
delegate_for_single_asset_approved(s, caller, to, id) ==
    IF approved_or_owner_panics(s, Some(caller), id) THEN Panic(s)
    ELSE IF ~approved_or_owner(s, Some(caller), id) THEN Err(s, "NotAllowed", <<>>)
    ELSE IF to = Zero THEN Err(s, "NotAllowed", <<>>)
    ELSE IF s.asset_proxy[id] # None
         THEN Err([s EXCEPT !.asset_proxy[id] = Some(to)], "CannotInsert", <<>>)
         ELSE Ok([s EXCEPT !.asset_proxy[id] = Some(to)], <<"ProxyUpdated">>)

delegate_for_single_asset(s, caller, to, id) ==
    IF asset_get_owner(s, id) # Some(caller) /\ asset_get_owner(s, id) = None
    THEN Panic(s)
    ELSE IF ~(\/ asset_get_owner(s, id) = Some(caller)
              \/ check_proxy_for_all(s, unwrap(asset_get_owner(s, id)), caller))
    THEN Err(s, "NotAllowed", <<>>)
    ELSE IF to = Zero THEN Err(s, "NotAllowed", <<>>)
    ELSE \* insert() stores the value and returns the one it replaced
         IF s.asset_proxy[id] # None
         THEN Err([s EXCEPT !.asset_proxy[id] = Some(to)], "CannotInsert", <<>>)
         ELSE Ok([s EXCEPT !.asset_proxy[id] = Some(to)], <<"ProxyUpdated">>)

account_delegate_for_all_asset(s, caller, to, approved) ==
    message(s, proxy_for_all_assets(s, caller, to, approved))

account_delegate_single_asset(s, caller, to, id) ==
    message(s, delegate_for_single_asset(s, caller, to, id))

\* ------------------------------------------------------------------- roles
is_not_administrator(s, caller) ==
    role_gate(s, administrator_accountid # caller, caller, AdministratorRole)

\* account_role_new without the check of the role's range.
account_role_new_unbounded(s, caller, accountid, role) ==
    message(s,
        LET gate == is_not_administrator(s, caller) IN
        IF gate = "panic" THEN Panic(s)
        ELSE IF gate = "reject" THEN Err(s, "NotAdministrator", <<>>)
        ELSE IF s.account_role[accountid] # None THEN Err(s, "DuplicatedData", <<>>)
        ELSE Ok([s EXCEPT !.account_role[accountid] = Some(role)], <<"RoleUpdate">>))

account_role_new(s, caller, accountid, role) ==
    message(s,
        LET gate == is_not_administrator(s, caller) IN
        IF gate = "panic" THEN Panic(s)
        ELSE IF gate = "reject" THEN Err(s, "NotAdministrator", <<>>)
        ELSE IF role > MaxRole THEN Err(s, "CannotInsert", <<>>)
        ELSE IF s.account_role[accountid] # None THEN Err(s, "DuplicatedData", <<>>)
        ELSE Ok([s EXCEPT !.account_role[accountid] = Some(role)], <<"RoleUpdate">>))

account_role_delete(s, caller, accountid) ==
    message(s,
        LET gate == is_not_administrator(s, caller) IN
        IF gate = "panic" THEN Panic(s)
        ELSE IF gate = "reject" THEN Err(s, "NotAdministrator", <<>>)
        ELSE IF s.account_role[accountid] = None THEN Err(s, "CannotRemove", <<>>)
        ELSE Ok([s EXCEPT !.account_role[accountid] = None], <<"RoleUpdate">>))

\* -------------------------------------------------------------- attributes
asset_description_new(s, caller, id, desc) ==
    message(s,
        IF s.asset_owner[id] = None THEN Err(s, "AssetNotFound", <<>>)
        ELSE IF s.asset_description[id] # None THEN Err(s, "DuplicatedData", <<>>)
        ELSE Ok([s EXCEPT !.asset_description[id] = Some(desc)], <<"AssetUpdate">>))

asset_description_delete(s, caller, id) ==
    message(s,
        IF s.asset_owner[id] = None THEN Err(s, "AssetNotFound", <<>>)
        ELSE LET gate == role_gate(s, s.asset_owner[id] # Some(caller), caller,
                                   AdministratorRole) IN
             IF gate = "panic" THEN Panic(s)
             ELSE IF gate = "reject" THEN Err(s, "NotOwner", <<>>)
             ELSE IF s.asset_description[id] = None THEN Err(s, "AssetNotFound", <<>>)
             ELSE Ok([s EXCEPT !.asset_description[id] = None], <<"AssetUpdate">>))

asset_photo_new(s, caller, id, photoipfs) ==
    message(s,
        IF s.asset_owner[id] = None THEN Err(s, "AssetNotFound", <<>>)
        ELSE IF s.asset_photo[id] # None THEN Err(s, "DuplicatedData", <<>>)
        ELSE Ok([s EXCEPT !.asset_photo[id] = Some(photoipfs)], <<"AssetUpdate">>))

asset_photo_delete(s, caller, id) ==
    message(s,
        IF s.asset_owner[id] = None THEN Err(s, "AssetNotFound", <<>>)
        ELSE LET gate == role_gate(s, s.asset_owner[id] # Some(caller), caller,
                                   AdministratorRole) IN
             IF gate = "panic" THEN Panic(s)
             ELSE IF gate = "reject" THEN Err(s, "NotOwner", <<>>)
             ELSE IF s.asset_photo[id] = None THEN Err(s, "AssetNotFound", <<>>)
             ELSE Ok([s EXCEPT !.asset_photo[id] = None], <<"AssetUpdate">>))

\* asset_category_new without the lookup of the category id in the catalog.
asset_category_new_uncatalogued(s, caller, id, categoryid) ==
    message(s,
        IF s.asset_owner[id] = None THEN Err(s, "AssetNotFound", <<>>)
        ELSE LET gate == role_gate(s, s.asset_owner[id] # Some(caller), caller,
                                   AdministratorRole) IN
             IF gate = "panic" THEN Panic(s)
             ELSE IF gate = "reject" THEN Err(s, "NotOwner", <<>>)
             ELSE IF s.asset_category[id] # None THEN Err(s, "DuplicatedData", <<>>)
             ELSE Ok([s EXCEPT !.asset_category[id] = Some(categoryid)],
                     <<"AssetUpdate">>))

asset_category_new(s, caller, id, categoryid) ==
    message(s,
        IF s.asset_owner[id] = None THEN Err(s, "AssetNotFound", <<>>)
        ELSE LET gate == role_gate(s, s.asset_owner[id] # Some(caller), caller,
                                   AdministratorRole) IN
             IF gate = "panic" THEN Panic(s)
             ELSE IF gate = "reject" THEN Err(s, "NotOwner", <<>>)
             ELSE IF s.asset_category_description[categoryid] = None
             THEN Err(s, "CategoryNotFound", <<>>)
             ELSE IF s.asset_category[id] # None THEN Err(s, "DuplicatedData", <<>>)
             ELSE Ok([s EXCEPT !.asset_category[id] = Some(categoryid)],
                     <<"AssetUpdate">>))

asset_category_verify(s, id) == s.asset_category[id] # None

asset_category_delete(s, caller, id) ==
    message(s,
        IF s.asset_owner[id] = None THEN Err(s, "AssetNotFound", <<>>)
        ELSE LET gate == role_gate(s, s.asset_owner[id] # Some(caller), caller,
                                   AdministratorRole) IN
             IF gate = "panic" THEN Panic(s)
             ELSE IF gate = "reject" THEN Err(s, "NotOwner", <<>>)
             ELSE IF s.asset_category[id] = None THEN Err(s, "AssetNotFound", <<>>)
             ELSE Ok([s EXCEPT !.asset_category[id] = None], <<"AssetUpdate">>))

\* asset_location_new with the role-5 override of the other attribute creates.
asset_location_new_administrator(s, caller, id, location) ==
    message(s,
        IF s.asset_owner[id] = None THEN Err(s, "AssetNotFound", <<>>)
        ELSE LET gate == role_gate(s, s.asset_owner[id] # Some(caller), caller,
                                   AdministratorRole) IN
             IF gate = "panic" THEN Panic(s)
             ELSE IF gate = "reject" THEN Err(s, "NotOwner", <<>>)
             ELSE IF s.asset_location[id] # None THEN Err(s, "DuplicatedData", <<>>)
             ELSE Ok([s EXCEPT !.asset_location[id] = Some(location)],
                     <<"AssetUpdate">>))

asset_location_new(s, caller, id, location) ==
    message(s,
        IF s.asset_owner[id] = None THEN Err(s, "AssetNotFound", <<>>)
        ELSE LET gate == role_gate(s, s.asset_owner[id] # Some(caller), caller,
                                   ShipperRole) IN
             IF gate = "panic" THEN Panic(s)
             ELSE IF gate = "reject" THEN Err(s, "NotOwner", <<>>)
             ELSE IF s.asset_location[id] # None THEN Err(s, "DuplicatedData", <<>>)
             ELSE Ok([s EXCEPT !.asset_location[id] = Some(location)],
                     <<"AssetUpdate">>))

asset_location_delete(s, caller, id) ==
    message(s,
        IF s.asset_owner[id] = None THEN Err(s, "AssetNotFound", <<>>)
        ELSE LET gate == role_gate(s, s.asset_owner[id] # Some(caller), caller,
                                   ShipperRole) IN
             IF gate = "panic" THEN Panic(s)
             ELSE IF gate = "reject" THEN Err(s, "NotOwner", <<>>)
             ELSE IF s.asset_location[id] = None THEN Err(s, "AssetNotFound", <<>>)
             ELSE Ok([s EXCEPT !.asset_location[id] = None], <<"AssetUpdate">>))

\* asset_metadata_new without the occupied-entry check: the value is replaced.
asset_metadata_new_upsert(s, caller, id, metadata) ==
    message(s,
        IF s.asset_owner[id] = None THEN Err(s, "AssetNotFound", <<>>)
        ELSE LET gate == role_gate(s, s.asset_owner[id] # Some(caller), caller,
                                   AdministratorRole) IN
             IF gate = "panic" THEN Panic(s)
             ELSE IF gate = "reject" THEN Err(s, "NotOwner", <<>>)
             ELSE Ok([s EXCEPT !.asset_metadata[id] = Some(metadata)],
                     <<"AssetUpdate">>))

asset_metadata_new(s, caller, id, metadata) ==
    message(s,
        IF s.asset_owner[id] = None THEN Err(s, "AssetNotFound", <<>>)
        ELSE LET gate == role_gate(s, s.asset_owner[id] # Some(caller), caller,
                                   AdministratorRole) IN
             IF gate = "panic" THEN Panic(s)
             ELSE IF gate = "reject" THEN Err(s, "NotOwner", <<>>)
             ELSE IF s.asset_metadata[id] # None THEN Err(s, "DuplicatedData", <<>>)
             ELSE Ok([s EXCEPT !.asset_metadata[id] = Some(metadata)],
                     <<"AssetUpdate">>))

asset_metadata_delete(s, caller, id) ==
    message(s,
        IF s.asset_owner[id] = None THEN Err(s, "AssetNotFound", <<>>)
        ELSE LET gate == role_gate(s, s.asset_owner[id] # Some(caller), caller,
                                   AdministratorRole) IN
             IF gate = "panic" THEN Panic(s)
             ELSE IF gate = "reject" THEN Err(s, "NotOwner", <<>>)
             ELSE IF s.asset_metadata[id] = None THEN Err(s, "AssetNotFound", <<>>)
             ELSE Ok([s EXCEPT !.asset_metadata[id] = None], <<"AssetUpdate">>))

asset_validation_new(s, caller, id, accountid) ==
    message(s,
        LET gate == is_not_administrator(s, caller) IN
        IF gate = "panic" THEN Panic(s)
        ELSE IF gate = "reject" THEN Err(s, "NotAdministrator", <<>>)
        ELSE IF s.asset_owner[id] = None THEN Err(s, "AssetNotFound", <<>>)
        ELSE IF s.asset_validation[id] # None THEN Err(s, "DuplicatedData", <<>>)
        ELSE Ok([s EXCEPT !.asset_validation[id] = Some(accountid)],
                <<"AssetUpdate">>))

asset_validation_delete(s, caller, id) ==
    message(s,
        LET gate == is_not_administrator(s, caller) IN
        IF gate = "panic" THEN Panic(s)
        ELSE IF gate = "reject" THEN Err(s, "NotAdministrator", <<>>)
        ELSE IF s.asset_owner[id] = None THEN Err(s, "AssetNotFound", <<>>)
        ELSE IF s.asset_validation[id] = None THEN Err(s, "AssetNotFound", <<>>)
        ELSE Ok([s EXCEPT !.asset_validation[id] = None], <<"AssetUpdate">>))

category_description_new(s, caller, id, description) ==
    message(s,
        LET gate == is_not_administrator(s, caller) IN
        IF gate = "panic" THEN Panic(s)
        ELSE IF gate = "reject" THEN Err(s, "NotAdministrator", <<>>)
        ELSE IF s.asset_category_description[id] # None
        THEN Err(s, "DuplicatedData", <<>>)
        ELSE Ok([s EXCEPT !.asset_category_description[id] = Some(description)],
                <<>>))

category_description_delete(s, caller, id) ==
    message(s,
        LET gate == is_not_administrator(s, caller) IN
        IF gate = "panic" THEN Panic(s)
        ELSE IF gate = "reject" THEN Err(s, "NotAdministrator", <<>>)
        ELSE IF s.asset_category_description[id] = None
        THEN Err(s, "CategoryNotFound", <<>>)
        ELSE Ok([s EXCEPT !.asset_category_description[id] = None], <<>>))

\* ----------------------------------------------------------------- actions
Init ==
    /\ self = new
    /\ overflow_checks \in BOOLEAN
    /\ calls = 0

\* A call that returned r: the storage is what the call has left.
Commit(r) ==
    /\ calls < MaxCalls
    /\ calls' = calls + 1
    /\ self' = r.st
    /\ UNCHANGED overflow_checks

AssetNew ==
    \E caller \in Callers, id \in AssetIds : Commit(asset_new(self, caller, id))

AssetTransfer ==
    \E caller \in Callers, destination \in Accounts, id \in AssetIds :
        Commit(asset_transfer(self, caller, destination, id))

TransferFrom ==
    \E caller \in Callers, from \in Accounts, to \in Accounts, id \in AssetIds :
        Commit(transfer_from(self, caller, from, to, id))

AssetDelete ==
    \E caller \in Callers, id \in AssetIds : Commit(asset_delete(self, caller, id))

AccountDelegateForAllAsset ==
    \E caller \in Callers, to \in Callers, approved \in BOOLEAN :
        Commit(account_delegate_for_all_asset(self, caller, to, approved))

AccountDelegateSingleAsset ==
    \E caller \in Callers, to \in Accounts, id \in AssetIds :
        Commit(account_delegate_single_asset(self, caller, to, id))

AccountRoleNew ==
    \E caller \in Callers, accountid \in Callers, role \in RoleArgs :
        Commit(account_role_new(self, caller, accountid, role))

AccountRoleDelete ==
    \E caller \in Callers, accountid \in Callers :
        Commit(account_role_delete(self, caller, accountid))

AssetDescriptionNew ==
    \E caller \in Callers, id \in AssetIds, desc \in Hashes :
        Commit(asset_description_new(self, caller, id, desc))

AssetDescriptionDelete ==
    \E caller \in Callers, id \in AssetIds :
        Commit(asset_description_delete(self, caller, id))

AssetPhotoNew ==
    \E caller \in Callers, id \in AssetIds, photoipfs \in Hashes :
        Commit(asset_photo_new(self, caller, id, photoipfs))

AssetPhotoDelete ==
    \E caller \in Callers, id \in AssetIds :
        Commit(asset_photo_delete(self, caller, id))

AssetCategoryNew ==
    \E caller \in Callers, id \in AssetIds, categoryid \in CategoryIds :
        Commit(asset_category_new(self, caller, id, categoryid))

AssetCategoryDelete ==
    \E caller \in Callers, id \in AssetIds :
        Commit(asset_category_delete(self, caller, id))

AssetLocationNew ==
    \E caller \in Callers, id \in AssetIds, location \in Hashes :
        Commit(asset_location_new(self, caller, id, location))

AssetLocationDelete ==
    \E caller \in Callers, id \in AssetIds :
        Commit(asset_location_delete(self, caller, id))

AssetMetadataNew ==
    \E caller \in Callers, id \in AssetIds, metadata \in Hashes :
        Commit(asset_metadata_new(self, caller, id, metadata))

AssetMetadataDelete ==
    \E caller \in Callers, id \in AssetIds :
        Commit(asset_metadata_delete(self, caller, id))

AssetValidationNew ==
    \E caller \in Callers, id \in AssetIds, accountid \in Accounts :
        Commit(asset_validation_new(self, caller, id, accountid))

AssetValidationDelete ==
    \E caller \in Callers, id \in AssetIds :
        Commit(asset_validation_delete(self, caller, id))

CategoryDescriptionNew ==
    \E caller \in Callers, id \in CategoryIds, description \in Hashes :
        Commit(category_description_new(self, caller, id, description))

CategoryDescriptionDelete ==
    \E caller \in Callers, id \in CategoryIds :
        Commit(category_description_delete(self, caller, id))

OwnershipNext ==
    \/ AssetNew
    \/ AssetTransfer
    \/ TransferFrom
    \/ AssetDelete
    \/ AccountDelegateForAllAsset
    \/ AccountDelegateSingleAsset
    \/ AccountRoleNew
    \/ AccountRoleDelete

Next ==
    \/ AssetNew
    \/ AssetTransfer
    \/ TransferFrom
    \/ AssetDelete
    \/ AccountDelegateForAllAsset
    \/ AccountDelegateSingleAsset
    \/ AccountRoleNew
    \/ AccountRoleDelete
    \/ AssetDescriptionNew
    \/ AssetDescriptionDelete
    \/ AssetPhotoNew
    \/ AssetPhotoDelete
    \/ AssetCategoryNew
    \/ AssetCategoryDelete
    \/ AssetLocationNew
    \/ AssetLocationDelete
    \/ AssetMetadataNew
    \/ AssetMetadataDelete
    \/ AssetValidationNew
    \/ AssetValidationDelete
    \/ CategoryDescriptionNew
    \/ CategoryDescriptionDelete

Spec == Init /\ [][Next]_vars

\* The ownership, approval and role messages alone.
SpecOwnership == Init /\ [][OwnershipNext]_vars

\* The messages that write the attribute maps, with the messages that write what
\* they read: asset_owner (mint and delete) and account_role.
AttributesNext ==
    \/ AssetNew
    \/ AssetDelete
    \/ AccountRoleNew
    \/ AccountRoleDelete
    \/ AssetDescriptionNew
    \/ AssetDescriptionDelete
    \/ AssetPhotoNew
    \/ AssetPhotoDelete
    \/ AssetCategoryNew
    \/ AssetCategoryDelete
    \/ AssetLocationNew
    \/ AssetLocationDelete
    \/ AssetMetadataNew
    \/ AssetMetadataDelete
    \/ AssetValidationNew
    \/ AssetValidationDelete
    \/ CategoryDescriptionNew
    \/ CategoryDescriptionDelete

SpecAttributes == Init /\ [][AttributesNext]_vars

\* The messages that store an owner or a single delegate, with those that grant
\* an authority to transfer (a blanket approval, a role).
TransferNext ==
    \/ AssetNew
    \/ AssetTransfer
    \/ TransferFrom
    \/ AccountDelegateForAllAsset
    \/ AccountDelegateSingleAsset
    \/ AccountRoleNew

SpecTransfer == Init /\ [][TransferNext]_vars

\* The messages that write the role map, which read nothing else.
RolesNext ==
    \/ AccountRoleNew
    \/ AccountRoleDelete

SpecRoles == Init /\ [][RolesNext]_vars

\* The messages that write what the role gates read besides the attribute maps:
\* asset_owner, account_role, asset_proxy and account_proxy.
GatesNext ==
    \/ AssetNew
    \/ AssetDelete
    \/ AccountRoleNew
    \/ AccountRoleDelete
    \/ AccountDelegateSingleAsset
    \/ AccountDelegateForAllAsset

SpecGates == Init /\ [][GatesNext]_vars

\* The messages that write the owner and the single delegate of an asset, with
\* the blanket approval that lets an operator transfer.
DelegationNext ==
    \/ AssetNew
    \/ AssetDelete
    \/ AssetTransfer
    \/ TransferFrom
    \/ AccountDelegateSingleAsset
    \/ AccountDelegateForAllAsset

SpecDelegation == Init /\ [][DelegationNext]_vars

\* ------------------------------------------------------------------ claims
\* The result of every message every caller can send in the current state.
TransferResults ==
    {asset_transfer(self, c, to, id) : c \in Callers, to \in Accounts, id \in AssetIds}
    \cup {transfer_from(self, c[1], c[2], to, id) :
            c \in Callers \X Accounts, to \in Accounts, id \in AssetIds}

OwnershipResults ==
    {asset_new(self, c, id) : c \in Callers, id \in AssetIds}
    \cup TransferResults
    \cup {asset_delete(self, c, id) : c \in Callers, id \in AssetIds}
    \cup {account_delegate_for_all_asset(self, c, to, approved) :
            c \in Callers, to \in Callers, approved \in BOOLEAN}
    \cup {account_delegate_single_asset(self, c, to, id) :
            c \in Callers, to \in Accounts, id \in AssetIds}

RoleResults ==
    {account_role_new(self, c, a, role) : c \in Callers, a \in Callers, role \in RoleArgs}
    \cup {account_role_delete(self, c, a) : c \in Callers, a \in Callers}

AttributeResults ==
    {asset_description_new(self, c, id, h) : c \in Callers, id \in AssetIds, h \in Hashes}
    \cup {asset_description_delete(self, c, id) : c \in Callers, id \in AssetIds}
    \cup {asset_photo_new(self, c, id, h) : c \in Callers, id \in AssetIds, h \in Hashes}
    \cup {asset_photo_delete(self, c, id) : c \in Callers, id \in AssetIds}
    \cup {asset_category_new(self, c, id, k) :
            c \in Callers, id \in AssetIds, k \in CategoryIds}
    \cup {asset_category_delete(self, c, id) : c \in Callers, id \in AssetIds}
    \cup {asset_location_new(self, c, id, h) : c \in Callers, id \in AssetIds, h \in Hashes}
    \cup {asset_location_delete(self, c, id) : c \in Callers, id \in AssetIds}
    \cup {asset_metadata_new(self, c, id, h) : c \in Callers, id \in AssetIds, h \in Hashes}
    \cup {asset_metadata_delete(self, c, id) : c \in Callers, id \in AssetIds}
    \cup {asset_validation_new(self, c, id, a) :
            c \in Callers, id \in AssetIds, a \in Accounts}
    \cup {asset_validation_delete(self, c, id) : c \in Callers, id \in AssetIds}
    \cup {category_description_new(self, c, k, h) :
            c \in Callers, k \in CategoryIds, h \in Hashes}
    \cup {category_description_delete(self, c, k) : c \in Callers, k \in CategoryIds}

MessageResults == OwnershipResults \cup RoleResults \cup AttributeResults

\* The role and attribute messages write none of the maps the ownership
\* messages read or write other than account_role, which only the role messages
\* write: the ownership messages behave under Spec as under SpecOwnership.
AttributeMessagesKeepOwnership ==
    \A r \in AttributeResults :
        /\ r.st.asset_owner = asset_owner
        /\ r.st.asset_proxy = asset_proxy
        /\ r.st.account_owned_assets = account_owned_assets
        /\ r.st.account_proxy = account_proxy
        /\ r.st.account_role = account_role

\* The number of assets account a owns.
Owned(s, a) == Cardinality({i \in AssetIds : s.asset_owner[i] = Some(a)})

\* The u32 b is the u32 a plus one, and the u32 b is the u32 a minus one.
IsSucc(a, b) == a # U32Max /\ b = a + 1
IsPred(a, b) == a # 0 /\ b = a - 1

RECURSIVE SumCounts(_, _)
SumCounts(s, as) ==
    IF as = {} THEN 0
    ELSE LET a == CHOOSE x \in as : TRUE IN
         account_assets_number(s, a) + SumCounts(s, as \ {a})

\* C1: in every reachable state, for every account A, ownedCount(A) equals the
\* number of asset ids whose current owner is A.
C1_OwnedCountIsNumberOwned ==
    \A a \in Accounts : account_assets_number(self, a) = Owned(self, a)

\* C2: every message that returns an Error returns it with the storage as it
\* was at call entry (all twelve maps unchanged).
C2_ErrorLeavesStorageUnchanged ==
    \A r \in MessageResults : r.res \in Error => r.st = self

\* The caller has no authority over asset id: it is not the owner, not the single
\* delegate, not a blanket-approved operator of the owner, and does not hold role 5.
Unauthorised(s, c, id) ==
    /\ s.asset_owner[id] # None
    /\ s.asset_owner[id] # Some(c)
    /\ s.asset_proxy[id] # Some(c)
    /\ ~check_proxy_for_all(s, unwrap(s.asset_owner[id]), c)
    /\ s.account_role[c] # Some(AdministratorRole)

\* C3: for every existing asset and every caller without authority over it
\* (callers with no role entry included), transfer and transferFrom return
\* NotApproved and leave all state unchanged.
C3_UnauthorisedTransferIsNotApproved ==
    \A c \in Callers, id \in AssetIds :
        Unauthorised(self, c, id) =>
            \A from \in Accounts, to \in Accounts :
                /\ asset_transfer(self, c, to, id) = Err(self, "NotApproved", <<>>)
                /\ transfer_from(self, c, from, to, id) = Err(self, "NotApproved", <<>>)

\* What a transfer of asset id, owned by O in s, to account to must leave in t.
TransferEffect(s, t, O, to, id) ==
    /\ t.asset_owner[id] = Some(to)
    /\ \A j \in AssetIds \ {id} : t.asset_owner[j] = s.asset_owner[j]
    /\ \A a \in Accounts \ {O, to} :
           account_assets_number(t, a) = account_assets_number(s, a)
    /\ IF to = O
       THEN account_assets_number(t, O) = account_assets_number(s, O)
       ELSE /\ IsPred(account_assets_number(s, O), account_assets_number(t, O))
            /\ IsSucc(account_assets_number(s, to), account_assets_number(t, to))

\* C4: after any successful transfer or transferFrom of an asset owned by O,
\* whoever the authorised caller and whatever `from`: the owner is `to`, O's count
\* is one less and to's count one more (both unchanged when to = O), and no other
\* count and no other asset's owner has changed.
C4_TransferMovesOneAssetFromOwner ==
    /\ \A c \in Callers, to \in Accounts, id \in AssetIds :
           LET r == asset_transfer(self, c, to, id) IN
           r.res = "Ok" => TransferEffect(self, r.st, unwrap(asset_owner[id]), to, id)
    /\ \A c \in Callers, from \in Accounts, to \in Accounts, id \in AssetIds :
           LET r == transfer_from(self, c, from, to, id) IN
           r.res = "Ok" => TransferEffect(self, r.st, unwrap(asset_owner[id]), to, id)

\* C5: in every reachable state the sum over all accounts of ownedCount equals
\* the number of existing assets. (A negative pattern is a count of 2^31 or more,
\* which no number of assets of the model equals.)
C5_SumOfCountsIsNumberOfAssets ==
    /\ \A a \in Accounts : account_assets_number(self, a) >= 0
    /\ SumCounts(self, Accounts) = Cardinality({i \in AssetIds : asset_verify(self, i)})

\* C6: after any successful transfer or transferFrom of asset id, the single
\* delegate of id is none, whether or not one existed before the call; clearing
\* always succeeds, and is a no-op when no delegate exists.
C6_TransferClearsSingleDelegate ==
    /\ \A id \in AssetIds :
           LET r == clear_proxy_asset(self, id) IN
           /\ r.res = "Ok"
           /\ asset_proxy[id] = None => r.st = self
    /\ \A c \in Callers, to \in Accounts, id \in AssetIds :
           LET r == asset_transfer(self, c, to, id) IN
           r.res = "Ok" => asset_get_delegated_account(r.st, id) = None
    /\ \A c \in Callers, from \in Accounts, to \in Accounts, id \in AssetIds :
           LET r == transfer_from(self, c, from, to, id) IN
           r.res = "Ok" => asset_get_delegated_account(r.st, id) = None

\* C6 witness: an asset with a single delegate, which the delegate transfers with
\* success, in a state from which the call is taken.
C6_Witness ==
    /\ calls < MaxCalls
    /\ \E c \in Callers, to \in Callers, id \in AssetIds :
           /\ asset_proxy[id] = Some(c)
           /\ asset_owner[id] # Some(c)
           /\ transfer_from(self, c, unwrap(asset_owner[id]), to, id).res = "Ok"
           /\ transfer_from(self, c, unwrap(asset_owner[id]), to, id).st.asset_proxy[id]
                  = None

\* C7: after any successful deleteAsset(id), the single delegate of id is none.
C7_DeleteClearsSingleDelegate ==
    \A c \in Callers, id \in AssetIds :
        LET r == asset_delete(self, c, id) IN
        r.res = "Ok" => asset_get_delegated_account(r.st, id) = None

\* C8: for every id that does not exist and every (non-zero) caller A, mint(id)
\* succeeds and afterwards ownerOf(id) = A, exists(id), ownedCount(A) is exactly
\* one greater, and every other owner and every other count is unchanged.
C8_MintCreatesOneAssetForCaller ==
    \A A \in Callers, id \in AssetIds :
        ~asset_verify(self, id) =>
            LET r == asset_new(self, A, id) IN
            /\ asset_get_owner(self, id) = None
            /\ r.res = "Ok"
            /\ asset_get_owner(r.st, id) = Some(A)
            /\ asset_verify(r.st, id)
            /\ IsSucc(account_assets_number(self, A), account_assets_number(r.st, A))
            /\ \A j \in AssetIds \ {id} : r.st.asset_owner[j] = asset_owner[j]
            /\ \A a \in Accounts \ {A} :
                   account_assets_number(r.st, a) = account_assets_number(self, a)

\* C9: mint(id) of an id that exists fails with AssetExists for every caller, the
\* current owner included, and leaves all state unchanged.
C9_MintExistingFails ==
    \A c \in Callers, id \in AssetIds :
        asset_verify(self, id) => asset_new(self, c, id) = Err(self, "AssetExists", <<>>)

\* C9 witness: an existing asset, minted again by its owner and by another
\* account, in a state from which the calls are taken.
C9_Witness ==
    /\ calls < MaxCalls
    /\ \E c \in Callers, d \in Callers, id \in AssetIds :
           /\ asset_owner[id] = Some(c)
           /\ d # c
           /\ asset_new(self, c, id).res = "AssetExists"
           /\ asset_new(self, d, id).res = "AssetExists"

\* C10: deleteAsset(id) of an existing asset by any caller other than its owner
\* fails with NotOwner and changes no state, even when the caller holds role 5, is
\* the hard-coded administrator, the single delegate or a blanket operator.
C10_DeleteByNonOwnerFails ==
    \A c \in Callers, id \in AssetIds :
        (asset_verify(self, id) /\ asset_get_owner(self, id) # Some(c)) =>
            asset_delete(self, c, id) = Err(self, "NotOwner", <<>>)

\* C10 witness: an existing asset and a caller that holds role 5 and is not its
\* owner, whose deleteAsset returns NotOwner, in a state from which the call is
\* taken.
C10_Witness ==
    /\ calls < MaxCalls
    /\ \E c \in Callers, id \in AssetIds :
           /\ asset_verify(self, id)
           /\ asset_owner[id] # Some(c)
           /\ account_role[c] = Some(AdministratorRole)
           /\ asset_delete(self, c, id) = Err(self, "NotOwner", <<>>)

\* C11: deleteAsset(id) by the current owner O of an existing asset succeeds and
\* afterwards exists(id) is false, ownerOf(id) is none and ownedCount(O) is exactly
\* one less than before; deleteAsset of an absent id fails with AssetNotFound.
C11_DeleteByOwnerRemovesAsset ==
    /\ \A O \in Callers, id \in AssetIds :
           asset_get_owner(self, id) = Some(O) =>
               LET r == asset_delete(self, O, id) IN
               /\ r.res = "Ok"
               /\ ~exists(r.st, id)
               /\ asset_get_owner(r.st, id) = None
               /\ IsPred(account_assets_number(self, O), account_assets_number(r.st, O))
    /\ \A c \in Callers, id \in AssetIds :
           ~asset_verify(self, id) =>
               asset_delete(self, c, id) = Err(self, "AssetNotFound", <<>>)

\* The caller has authority to transfer the existing asset id: it is the owner,
\* the single delegate, a blanket-approved operator of the owner, or holds role 5.
Authorised(s, c, id) ==
    /\ s.asset_owner[id] # None
    /\ \/ s.asset_owner[id] = Some(c)
       \/ s.asset_proxy[id] = Some(c)
       \/ check_proxy_for_all(s, unwrap(s.asset_owner[id]), c)
       \/ s.account_role[c] = Some(AdministratorRole)

\* What a rejected transfer of asset id must leave in t: the asset with its owner
\* and its single delegate, and every owned-count.
TransferRejected(s, t, id) ==
    /\ asset_verify(t, id)
    /\ asset_get_owner(t, id) = asset_get_owner(s, id)
    /\ asset_get_delegated_account(t, id) = asset_get_delegated_account(s, id)
    /\ \A a \in Accounts : account_assets_number(t, a) = account_assets_number(s, a)

\* C12: transfer, or transferFrom with the owner as `from`, of an existing asset
\* to the zero account by an authorised caller fails with NotAllowed, and
\* afterwards the asset still exists with the same owner, the same single delegate
\* and all owned-counts unchanged.
C12_TransferToZeroIsRejected ==
    \A c \in Callers, id \in AssetIds :
        Authorised(self, c, id) =>
            /\ LET r == asset_transfer(self, c, Zero, id) IN
               r.res = "NotAllowed" /\ TransferRejected(self, r.st, id)
            /\ LET r == transfer_from(self, c, unwrap(asset_owner[id]), Zero, id) IN
               r.res = "NotAllowed" /\ TransferRejected(self, r.st, id)

\* The caller may delegate the existing asset id: it is the owner or a
\* blanket-approved operator of the owner.
MayDelegate(s, c, id) ==
    /\ s.asset_owner[id] # None
    /\ \/ s.asset_owner[id] = Some(c)
       \/ check_proxy_for_all(s, unwrap(s.asset_owner[id]), c)

\* C13: the single-asset delegate is set-once: delegateSingleAsset(to, id) with a
\* non-zero `to`, by the owner or a blanket-approved operator of the owner, when id
\* already has a delegate D, fails with CannotInsert, and afterwards
\* getSingleDelegate(id) is still D.
C13_SingleDelegateIsSetOnce ==
    \A c \in Callers, to \in Callers, id \in AssetIds :
        (MayDelegate(self, c, id) /\ asset_get_delegated_account(self, id) # None) =>
            LET r == account_delegate_single_asset(self, c, to, id) IN
            /\ r.res = "CannotInsert"
            /\ asset_get_delegated_account(r.st, id) = asset_get_delegated_account(self, id)

\* C14: delegateSingleAsset(to, id) stores a delegate only when the caller is the
\* current owner of id or a blanket-approved operator of that owner; for every
\* other caller of an existing asset (the asset's single delegate and role-5
\* accounts included) it fails with NotAllowed and changes nothing.
C14_OnlyOwnerOrOperatorDelegates ==
    \A c \in Callers, to \in Accounts, id \in AssetIds :
        LET r == account_delegate_single_asset(self, c, to, id) IN
        /\ r.st.asset_proxy # asset_proxy => MayDelegate(self, c, id)
        /\ (asset_verify(self, id) /\ ~MayDelegate(self, c, id)) =>
               r = Err(self, "NotAllowed", <<>>)

\* C14 witness: an asset whose single delegate is neither its owner nor an
\* operator of the owner, and whose delegateSingleAsset to another account
\* returns NotAllowed, in a state from which the call is taken.
C14_Witness ==
    /\ calls < MaxCalls
    /\ \E c \in Callers, to \in Callers, id \in AssetIds :
           /\ asset_proxy[id] = Some(c)
           /\ to # c
           /\ asset_verify(self, id)
           /\ ~MayDelegate(self, c, id)
           /\ account_delegate_single_asset(self, c, to, id) = Err(self, "NotAllowed", <<>>)

\* The caller is the current owner of asset id or holds the given role.
OwnerOrRole(s, c, id, role) ==
    \/ s.asset_owner[id] = Some(c)
    \/ s.account_role[c] = Some(role)

\* C15: setDescription and setPhoto succeed only when the caller is the asset's
\* current owner or holds role 5; any other caller is rejected and the
\* description map and the photo map are unchanged.
C15_DescriptionAndPhotoNeedOwnerOrAdministrator ==
    \A c \in Callers, id \in AssetIds, h \in Hashes :
        ~OwnerOrRole(self, c, id, AdministratorRole) =>
            /\ LET r == asset_description_new(self, c, id, h) IN
               r.res # "Ok" /\ r.st.asset_description = asset_description
            /\ LET r == asset_photo_new(self, c, id, h) IN
               r.res # "Ok" /\ r.st.asset_photo = asset_photo

\* C16: location create and delete succeed only when the caller is the asset's
\* owner or holds role 4 (Shipper), and change nothing for any other caller; a
\* non-owner caller of an existing asset that holds role 5 (Administrator) is
\* rejected with NotOwner and all state is unchanged.
C16_LocationNeedsOwnerOrShipper ==
    \A c \in Callers, id \in AssetIds :
        /\ \A h \in Hashes :
               LET r == asset_location_new(self, c, id, h) IN
               /\ r.res = "Ok" => OwnerOrRole(self, c, id, ShipperRole)
               /\ ~OwnerOrRole(self, c, id, ShipperRole) => r.st = self
               /\ (asset_verify(self, id) /\ asset_get_owner(self, id) # Some(c)
                     /\ account_role_get(self, c) = Some(AdministratorRole)) =>
                      r = Err(self, "NotOwner", <<>>)
        /\ LET r == asset_location_delete(self, c, id) IN
           /\ r.res = "Ok" => OwnerOrRole(self, c, id, ShipperRole)
           /\ ~OwnerOrRole(self, c, id, ShipperRole) => r.st = self
           /\ (asset_verify(self, id) /\ asset_get_owner(self, id) # Some(c)
                 /\ account_role_get(self, c) = Some(AdministratorRole)) =>
                  r = Err(self, "NotOwner", <<>>)

\* C16 witness: an existing asset and a caller that holds role 5 and is not its
\* owner, whose location create and delete return NotOwner, in a state from which
\* the calls are taken.
C16_Witness ==
    /\ calls < MaxCalls
    /\ \E c \in Callers, id \in AssetIds, h \in Hashes :
           /\ asset_verify(self, id)
           /\ asset_get_owner(self, id) # Some(c)
           /\ account_role_get(self, c) = Some(AdministratorRole)
           /\ asset_location_new(self, c, id, h).res = "NotOwner"
           /\ asset_location_delete(self, c, id).res = "NotOwner"

\* Account P's only authority over the existing asset id is a blanket approval
\* from its owner: P is not the owner and holds neither role 5 nor role 4.
OnlyBlanketApproved(s, P, id) ==
    /\ s.asset_owner[id] # None
    /\ s.asset_owner[id] # Some(P)
    /\ check_proxy_for_all(s, unwrap(s.asset_owner[id]), P)
    /\ s.account_role[P] # Some(AdministratorRole)
    /\ s.account_role[P] # Some(ShipperRole)

\* The per-asset attribute creates and deletes of caller c on asset id.
AttributeEdits(s, c, id) ==
    {asset_description_new(s, c, id, h) : h \in Hashes}
    \cup {asset_photo_new(s, c, id, h) : h \in Hashes}
    \cup {asset_location_new(s, c, id, h) : h \in Hashes}
    \cup {asset_metadata_new(s, c, id, h) : h \in Hashes}
    \cup {asset_category_new(s, c, id, k) : k \in CategoryIds}
    \cup {asset_description_delete(s, c, id), asset_photo_delete(s, c, id),
          asset_location_delete(s, c, id), asset_metadata_delete(s, c, id),
          asset_category_delete(s, c, id)}

\* C17: an account whose only authority over an asset is a blanket approval from
\* its owner can transfer the asset (transferFrom with the owner as `from`, to any
\* non-zero account), but none of the description, photo, location, metadata and
\* category creates and deletes it invokes on that asset succeeds or changes an
\* attribute map.
C17_BlanketApprovalGrantsNoAttributeEdit ==
    \A P \in Callers, id \in AssetIds :
        OnlyBlanketApproved(self, P, id) =>
            /\ \A to \in Callers :
                   transfer_from(self, P, unwrap(asset_owner[id]), to, id).res = "Ok"
            /\ \A r \in AttributeEdits(self, P, id) :
                   /\ r.res # "Ok"
                   /\ r.st.asset_description = asset_description
                   /\ r.st.asset_photo = asset_photo
                   /\ r.st.asset_location = asset_location
                   /\ r.st.asset_metadata = asset_metadata
                   /\ r.st.asset_category = asset_category

\* The caller is the hard-coded super-administrator or holds role 5.
IsAdministrator(s, c) ==
    c = administrator_accountid \/ s.account_role[c] = Some(AdministratorRole)

\* One attribute map, read by get and written by create and delete, is set-once
\* in the current state. An authorised create or delete is one that meets every
\* requirement but the one on the key's value: the caller has the right MayEdit
\* on key k (which, for a per-asset map, has the asset exist) and the value v is
\* one the create accepts. For every key that holds a value: the create fails with
\* DuplicatedData and changes nothing; the delete succeeds and empties the key; and
\* a create that follows the delete succeeds and stores its value.
SetOnce(create(_, _, _, _), delete(_, _, _), get(_, _), MayEdit(_, _, _),
        Accepts(_, _), Keys, Values) ==
    \A k \in Keys :
        get(self, k) # None =>
            \A c \in Callers, c2 \in Callers, v \in Values :
                (MayEdit(self, c, k) /\ MayEdit(self, c2, k) /\ Accepts(self, v)) =>
                    /\ create(self, c, k, v) = Err(self, "DuplicatedData", <<>>)
                    /\ LET d == delete(self, c, k) IN
                       /\ d.res = "Ok"
                       /\ get(d.st, k) = None
                       /\ LET n == create(d.st, c2, k, v) IN
                          n.res = "Ok" /\ get(n.st, k) = Some(v)

MayEditAsset(s, c, id) ==
    asset_verify(s, id) /\ OwnerOrRole(s, c, id, AdministratorRole)

MayEditLocation(s, c, id) ==
    asset_verify(s, id) /\ OwnerOrRole(s, c, id, ShipperRole)

MayEditValidation(s, c, id) == asset_verify(s, id) /\ IsAdministrator(s, c)

MayEditCatalog(s, c, k) == IsAdministrator(s, c)

AnyValue(s, v) == TRUE

InCatalog(s, k) == s.asset_category_description[k] # None

\* C18: every attribute map (description, photo, location, metadata, asset
\* category, validation, category description) is set-once: an authorised create
\* on a key that holds a value fails with DuplicatedData and leaves the stored
\* value unchanged, and after an authorised delete of that key a create on the
\* same key succeeds again and stores the new value.
C18_AttributeMapsAreSetOnce ==
    /\ SetOnce(asset_description_new, asset_description_delete,
               LAMBDA s, k : s.asset_description[k], MayEditAsset, AnyValue,
               AssetIds, Hashes)
    /\ SetOnce(asset_photo_new, asset_photo_delete,
               LAMBDA s, k : s.asset_photo[k], MayEditAsset, AnyValue,
               AssetIds, Hashes)
    /\ SetOnce(asset_location_new, asset_location_delete,
               LAMBDA s, k : s.asset_location[k], MayEditLocation, AnyValue,
               AssetIds, Hashes)
    /\ SetOnce(asset_metadata_new, asset_metadata_delete,
               LAMBDA s, k : s.asset_metadata[k], MayEditAsset, AnyValue,
               AssetIds, Hashes)
    /\ SetOnce(asset_category_new, asset_category_delete,
               LAMBDA s, k : s.asset_category[k], MayEditAsset, InCatalog,
               AssetIds, CategoryIds)
    /\ SetOnce(asset_validation_new, asset_validation_delete,
               LAMBDA s, k : s.asset_validation[k], MayEditValidation, AnyValue,
               AssetIds, Accounts)
    /\ SetOnce(category_description_new, category_description_delete,
               LAMBDA s, k : s.asset_category_description[k], MayEditCatalog,
               AnyValue, CategoryIds, Hashes)

\* C18 witness: an asset whose metadata its owner has stored: the owner's second
\* create with another value returns DuplicatedData, and the owner's delete
\* followed by that create stores the other value, in a state from which the
\* calls are taken.
C18_Witness ==
    /\ calls < MaxCalls
    /\ \E c \in Callers, id \in AssetIds, h \in Hashes :
           /\ asset_get_owner(self, id) = Some(c)
           /\ asset_metadata[id] # None
           /\ asset_metadata[id] # Some(h)
           /\ asset_metadata_new(self, c, id, h) = Err(self, "DuplicatedData", <<>>)
           /\ asset_metadata_delete(self, c, id).res = "Ok"
           /\ asset_metadata_new(asset_metadata_delete(self, c, id).st, c, id, h).res = "Ok"
           /\ asset_metadata_new(asset_metadata_delete(self, c, id).st, c, id, h)
                  .st.asset_metadata[id] = Some(h)

\* C19: attaching a category to an asset succeeds only if the asset exists and
\* the category id has an entry in the category-description catalog; with a
\* category id that is not in the catalog no call changes anything, and the call
\* of an authorised caller on an existing asset fails with CategoryNotFound.
C19_CategoryCreateNeedsCatalogEntry ==
    \A c \in Callers, id \in AssetIds, k \in CategoryIds :
        LET r == asset_category_new(self, c, id, k) IN
        /\ r.res = "Ok" => asset_verify(self, id) /\ InCatalog(self, k)
        /\ ~InCatalog(self, k) => r.res # "Ok" /\ r.st = self
        /\ (MayEditAsset(self, c, id) /\ ~InCatalog(self, k)) =>
               r = Err(self, "CategoryNotFound", <<>>)

\* C19 witness: an existing asset with no category, and a category id that is not
\* in the catalog while another one is: the owner's create with the first returns
\* CategoryNotFound, in a state from which the call is taken.
C19_Witness ==
    /\ calls < MaxCalls
    /\ \E c \in Callers, id \in AssetIds, k \in CategoryIds, k2 \in CategoryIds :
           /\ asset_get_owner(self, id) = Some(c)
           /\ asset_category[id] = None
           /\ ~InCatalog(self, k)
           /\ InCatalog(self, k2)
           /\ asset_category_new(self, c, id, k) = Err(self, "CategoryNotFound", <<>>)
           /\ asset_category_new(self, c, id, k2).res = "Ok"

\* The administrator-gated messages of caller c.
AdministratorGated(s, c) ==
    {account_role_new(s, c, a, role) : a \in Callers, role \in RoleArgs}
    \cup {account_role_delete(s, c, a) : a \in Callers}
    \cup {category_description_new(s, c, k, h) : k \in CategoryIds, h \in Hashes}
    \cup {category_description_delete(s, c, k) : k \in CategoryIds}
    \cup {asset_validation_new(s, c, id, a) : id \in AssetIds, a \in Accounts}
    \cup {asset_validation_delete(s, c, id) : id \in AssetIds}

\* C20: setRole, deleteRole, category-description create and delete and
\* asset-validation create and delete change state only when the caller is the
\* hard-coded super-administrator or holds role 5; for every other caller (with a
\* role 0..4 or with no role, owner of the asset or not) they fail with
\* NotAdministrator and change nothing.
C20_AdministratorGate ==
    \A c \in Callers :
        ~IsAdministrator(self, c) =>
            \A r \in AdministratorGated(self, c) : r = Err(self, "NotAdministrator", <<>>)

C22_BlanketApprovalIsUpsert ==
    /\ \A C \in Callers, operator \in Callers, approved \in BOOLEAN :
           LET r == account_delegate_for_all_asset(self, C, operator, approved) IN
           IF operator = C
           THEN r.res = "NotAllowed" /\ r.st = self
           ELSE /\ r.res = "Ok"
                /\ account_verify_delegated_for_all_asset(r.st, C, operator) = approved
                /\ LET r2 == account_delegate_for_all_asset(r.st, C, operator, approved) IN
                   r2.res = "Ok" /\ r2.st = r.st
    /\ \A O \in Accounts, P \in Accounts :
           account_proxy[<<O, P>>] = None =>
               ~account_verify_delegated_for_all_asset(self, O, P)

\* The result of every message but setBlanketApproval that every caller can send
\* in the current state.
NonApprovalResults ==
    {asset_new(self, c, id) : c \in Callers, id \in AssetIds}
    \cup TransferResults
    \cup {asset_delete(self, c, id) : c \in Callers, id \in AssetIds}
    \cup {account_delegate_single_asset(self, c, to, id) :
            c \in Callers, to \in Accounts, id \in AssetIds}
    \cup RoleResults
    \cup AttributeResults

\* isBlanketApproved has the same value in storage t as in storage s for every
\* pair of accounts but those of the set except.
SameApprovals(s, t, except) ==
    \A O \in Accounts, P \in Accounts :
        <<O, P>> \notin except =>
            account_verify_delegated_for_all_asset(t, O, P)
                = account_verify_delegated_for_all_asset(s, O, P)

\* C23: the value of isBlanketApproved(O, P) changes only in a successful
\* setBlanketApproval call made by O with operator P: a setBlanketApproval that
\* fails changes no value, one that succeeds changes no other pair's value, and
\* mint, transfer, transferFrom, deleteAsset, delegation, role and attribute
\* messages leave the blanket-approval map unchanged.
C23_ApprovalChangesOnlyBySuccessfulSet ==
    /\ \A r \in NonApprovalResults : r.st.account_proxy = account_proxy
    /\ \A O \in Callers, P \in Callers, approved \in BOOLEAN :
           LET r == account_delegate_for_all_asset(self, O, P, approved) IN
           /\ SameApprovals(self, r.st, {<<O, P>>})
           /\ r.res # "Ok" => SameApprovals(self, r.st, {})

\* C24: after the owner O of asset id has delegated it to account D with a
\* successful delegateSingleAsset(D, id), a transferFrom(O, T, id) called by D to
\* any non-zero T succeeds whatever role D has or lacks; afterwards ownerOf(id) is
\* T, the delegate of id is cleared, and no transfer or transferFrom of id by D
\* succeeds unless D is T or has another authority over id.
C24_DelegateTransfersOnce ==
    \A O \in Callers, D \in Callers, id \in AssetIds :
        asset_get_owner(self, id) = Some(O) =>
            LET d == account_delegate_single_asset(self, O, D, id) IN
            d.res = "Ok" =>
                \A T \in Callers :
                    LET t == transfer_from(d.st, D, O, T, id) IN
                    /\ t.res = "Ok"
                    /\ asset_get_owner(t.st, id) = Some(T)
                    /\ asset_get_delegated_account(t.st, id) = None
                    /\ (D # T /\ ~Authorised(t.st, D, id)) =>
                           \A from \in Accounts, to \in Accounts :
                               /\ transfer_from(t.st, D, from, to, id).res # "Ok"
                               /\ asset_transfer(t.st, D, to, id).res # "Ok"

\* Every asset O owns in storage s can be moved by P with transferFrom(O, T, id)
\* to every non-zero account T, and after each such transfer the same is true of
\* the assets O still owns, for up to n transfers in a row.
RECURSIVE OperatorCanTransferAll(_, _, _, _)
OperatorCanTransferAll(s, O, P, n) ==
    \A id \in AssetIds, T \in Callers :
        s.asset_owner[id] = Some(O) =>
            LET t == transfer_from(s, P, O, T, id) IN
            /\ t.res = "Ok"
            /\ asset_get_owner(t.st, id) = Some(T)
            /\ account_verify_delegated_for_all_asset(t.st, O, P)
            /\ n > 1 => OperatorCanTransferAll(t.st, O, P, n - 1)

\* C25: once O has approved P with a successful setBlanketApproval(P, true), P
\* can transferFrom(O, T, id) every asset id O owns to any non-zero T, with or
\* without a per-asset delegate, and keeps that ability for O's remaining assets
\* after each such transfer; once O has set the approval to false with success,
\* no transferFrom of an asset of O by P succeeds unless P has another authority
\* over the asset.
C25_BlanketOperatorTransfersAll ==
    \A O \in Callers, P \in Callers :
        LET a == account_delegate_for_all_asset(self, O, P, TRUE) IN
        a.res = "Ok" =>
            /\ OperatorCanTransferAll(a.st, O, P, MaxAssetId)
            /\ LET f == account_delegate_for_all_asset(a.st, O, P, FALSE) IN
               /\ f.res = "Ok"
               /\ \A id \in AssetIds :
                      (f.st.asset_owner[id] = Some(O) /\ ~Authorised(f.st, P, id)) =>
                          \A from \in Accounts, to \in Accounts :
                              transfer_from(f.st, P, from, to, id).res # "Ok"

\* C26: a caller holding role 5 who is neither the owner, the single delegate nor
\* a blanket operator is authorised to transfer any existing asset: both
\* transfer(to, id) and transferFrom(owner, to, id) called by it with a non-zero
\* `to` succeed and make `to` the owner.
C26_AdministratorTransfersAnyAsset ==
    \A c \in Callers, id \in AssetIds :
        (/\ asset_verify(self, id)
         /\ account_role_get(self, c) = Some(AdministratorRole)
         /\ asset_get_owner(self, id) # Some(c)
         /\ asset_get_delegated_account(self, id) # Some(c)
         /\ ~account_verify_delegated_for_all_asset(self, unwrap(asset_owner[id]), c)) =>
            \A to \in Callers :
                /\ LET r == asset_transfer(self, c, to, id) IN
                   r.res = "Ok" /\ asset_get_owner(r.st, id) = Some(to)
                /\ LET r == transfer_from(self, c, unwrap(asset_owner[id]), to, id) IN
                   r.res = "Ok" /\ asset_get_owner(r.st, id) = Some(to)

\* C27: in every reachable state the zero account is not the owner and not the
\* single delegate of any asset, and the calls that would store it fail with
\* NotAllowed: adding a vacant id to the zero account (the step of mint and
\* transfer that stores the owner), a transfer or transferFrom to the zero
\* account whose like to a non-zero account succeeds, and a delegateSingleAsset
\* to the zero account by the owner or an operator of the owner. No call with the
\* zero account as destination or delegate returns Ok.
C27_ZeroAccountNeverOwnerNorDelegate ==
    /\ \A id \in AssetIds :
           /\ asset_get_owner(self, id) # Some(Zero)
           /\ asset_get_delegated_account(self, id) # Some(Zero)
    /\ \A id \in AssetIds :
           ~asset_verify(self, id) =>
               add_asset_to(self, Zero, id) = Err(self, "NotAllowed", <<>>)
    /\ \A c \in Callers, id \in AssetIds :
           /\ LET z == asset_transfer(self, c, Zero, id).res IN
              /\ z # "Ok"
              /\ \/ z = "NotAllowed"
                 \/ \A to \in Callers : asset_transfer(self, c, to, id).res # "Ok"
           /\ \A from \in Accounts :
                  LET z == transfer_from(self, c, from, Zero, id).res IN
                  /\ z # "Ok"
                  /\ \/ z = "NotAllowed"
                     \/ \A to \in Callers : transfer_from(self, c, from, to, id).res # "Ok"
           /\ LET d == account_delegate_single_asset(self, c, Zero, id) IN
              /\ d.res # "Ok"
              /\ MayDelegate(self, c, id) => d = Err(self, "NotAllowed", <<>>)

\* C27 witness: an asset whose owner's transfer to the zero account and
\* delegateSingleAsset to the zero account return NotAllowed, while its transfer
\* to another account succeeds, in a state from which the calls are taken.
C27_Witness ==
    /\ calls < MaxCalls
    /\ \E c \in Callers, to \in Callers, id \in AssetIds :
           /\ asset_get_owner(self, id) = Some(c)
           /\ asset_transfer(self, c, to, id).res = "Ok"
           /\ asset_transfer(self, c, Zero, id).res = "NotAllowed"
           /\ transfer_from(self, c, c, Zero, id).res = "NotAllowed"
           /\ account_delegate_single_asset(self, c, Zero, id).res = "NotAllowed"

\* C28: CannotFetchValue is unreachable: in no reachable state does any mint,
\* transfer, transferFrom, deleteAsset, setBlanketApproval or delegateSingleAsset
\* call by any caller return CannotFetchValue.
C28_CannotFetchValueIsUnreachable ==
    \A r \in OwnershipResults : r.res # "CannotFetchValue"

\* C29: every successful mutating call emits exactly one notification, of the
\* kind belonging to it: Transfer for mint, transfer, transferFrom and delete,
\* AssetUpdate for every attribute, category, category-description and validation
\* create and delete, RoleUpdate for setRole and deleteRole, ApprovalForAll for
\* setBlanketApproval, ProxyUpdated for delegateSingleAsset.
C29_OneNotificationPerSuccessfulCall ==
    /\ \A r \in {asset_new(self, c, id) : c \in Callers, id \in AssetIds}
                \cup TransferResults
                \cup {asset_delete(self, c, id) : c \in Callers, id \in AssetIds} :
           r.res = "Ok" => r.ev = <<"Transfer">>
    /\ \A r \in AttributeResults : r.res = "Ok" => r.ev = <<"AssetUpdate">>
    /\ \A r \in RoleResults : r.res = "Ok" => r.ev = <<"RoleUpdate">>
    /\ \A c \in Callers, to \in Callers, approved \in BOOLEAN :
           LET r == account_delegate_for_all_asset(self, c, to, approved) IN
           r.res = "Ok" => r.ev = <<"ApprovalForAll">>
    /\ \A c \in Callers, to \in Accounts, id \in AssetIds :
           LET r == account_delegate_single_asset(self, c, to, id) IN
           r.res = "Ok" => r.ev = <<"ProxyUpdated">>

\* The call has aborted: its result is no value of the Error enum and not Ok,
\* nothing is emitted and the storage is as at call entry.
Aborted(r) == r.res = "Panic" /\ r.ev = <<>> /\ r.st = self

C31_TransferFromNeedsOwnerAsFrom ==
    \A c \in Callers, from \in Accounts, to \in Accounts, id \in AssetIds :
        LET r == transfer_from(self, c, from, to, id) IN
        /\ r.res = "Ok" => asset_get_owner(self, id) = Some(from)
        /\ (Authorised(self, c, id) /\ asset_get_owner(self, id) # Some(from)) =>
               /\ asset_get_owner(r.st, id) = asset_get_owner(self, id)
               /\ \A a \in Accounts :
                      account_assets_number(r.st, a) = account_assets_number(self, a)


\* C32: in every reachable state the current owner of an existing asset can
\* dispose of it: deleteAsset(id) called by the owner succeeds, and
\* transfer(to, id) called by the owner to any non-zero account succeeds, whatever
\* calls other accounts have made before.
C32_OwnerCanAlwaysDispose ==
    \A id \in AssetIds :
        asset_verify(self, id) =>
            LET O == unwrap(asset_get_owner(self, id)) IN
            /\ asset_delete(self, O, id).res = "Ok"
            /\ \A to \in Callers : asset_transfer(self, O, to, id).res = "Ok"


\* C33: delegation authority never outlives the ownership that granted it: in
\* every reachable state an asset id that has a single delegate exists; and when
\* an id that does not exist is minted by an account M, no other account D that
\* is neither a blanket-approved operator of M nor holds role 5 (an account
\* delegated by a previous owner in particular) can transfer it.
C33_DelegationDoesNotOutliveOwnership ==
    /\ \A id \in AssetIds :
           asset_get_delegated_account(self, id) # None => asset_verify(self, id)
    /\ \A M \in Callers, id \in AssetIds :
           ~asset_verify(self, id) =>
               LET m == asset_new(self, M, id) IN
               m.res = "Ok" =>
                   \A D \in Callers \ {M} :
                       (/\ ~check_proxy_for_all(m.st, M, D)
                        /\ account_role_get(m.st, D) # Some(AdministratorRole)) =>
                           \A to \in Accounts :
                               /\ asset_transfer(m.st, D, to, id).res # "Ok"
                               /\ \A from \in Accounts :
                                      transfer_from(m.st, D, from, to, id).res # "Ok"


\* The per-asset attribute values stored for id in s (description, photo,
\* location, metadata, asset category, validation).
AttributesOf(s, id) ==
    <<s.asset_description[id], s.asset_photo[id], s.asset_location[id],
      s.asset_metadata[id], s.asset_category[id], s.asset_validation[id]>>

NoAttributes == <<None, None, None, None, None, None>>

\* C34: in every reachable state every key that holds a per-asset attribute
\* value (description, photo, location, metadata, asset category, validation) is
\* the id of an asset that exists; a mint of an id that does not exist yields an
\* asset without any attribute value.
C34_AttributeKeysAreExistingAssets ==
    /\ \A id \in AssetIds :
           ~asset_verify(self, id) => AttributesOf(self, id) = NoAttributes
    /\ \A M \in Callers, id \in AssetIds :
           LET m == asset_new(self, M, id) IN
           m.res = "Ok" => AttributesOf(m.st, id) = NoAttributes


\* C35: in every reachable state every category id stored for an asset in the
\* asset-category map has an entry in the category-description catalog, and a
\* successful delete of a category description leaves no asset with that category.
C35_AssetCategoryIsInCatalog ==
    /\ \A id \in AssetIds :
           asset_category[id] # None => InCatalog(self, unwrap(asset_category[id]))
    /\ \A c \in Callers, k \in CategoryIds :
           LET r == category_description_delete(self, c, k) IN
           r.res = "Ok" => \A id \in AssetIds : r.st.asset_category[id] # Some(k)


\* The call has not aborted and has left no owned-count at 2^32-1, the value a
\* count of 0 wraps to.
NoUnderflow(r) ==
    /\ r.res # "Panic"
    /\ \A a \in Accounts : r.st.account_owned_assets[a] # Some(U32Max)

\* C36: the 32-bit owned-count never underflows: in every reachable state no
\* count is 2^32-1, the owner of an existing asset has a stored count of at least
\* 1, and no transfer, transferFrom or deleteAsset that reaches
\* decrease_counter_of (the caller has authority over the existing asset; the
\* caller is the owner, for deleteAsset) aborts on the subtraction or wraps a
\* count to 2^32-1.
C36_OwnedCountNeverUnderflows ==
    /\ \A a \in Accounts : account_owned_assets[a] # Some(U32Max)
    /\ \A id \in AssetIds :
           asset_verify(self, id) =>
               LET O == unwrap(asset_get_owner(self, id)) IN
               /\ account_owned_assets[O] # None
               /\ unwrap(account_owned_assets[O]) >= 1
               /\ NoUnderflow(asset_delete(self, O, id))
    /\ \A c \in Callers, id \in AssetIds :
           Authorised(self, c, id) =>
               \A to \in Accounts :
                   /\ NoUnderflow(asset_transfer(self, c, to, id))
                   /\ \A from \in Accounts :
                          NoUnderflow(transfer_from(self, c, from, to, id))

====
